---- MODULE Spec2Model ----
(***************************************************************************)
(* Model of the firebase-amazon-ads search service: the cache-or-fetch     *)
(* handler of GET /amazon-products/search (src/routes/amazon-products.js)  *)
(* together with the provider adapter (src/paapi.js).                      *)
(*                                                                         *)
(* A JavaScript string is a sequence of one-character strings.  An error   *)
(* message is a sequence of text fragments, cut so that each word the      *)
(* handler looks for with String.includes is a fragment of its own.        *)
(***************************************************************************)
EXTENDS Integers, Sequences, FiniteSets, TLC

(***************************************************************************)
(* Bounds of the model                                                     *)
(***************************************************************************)
MaxReq == 2
MaxTicks == 1
MaxDel == 1
MaxHealth == 2

(***************************************************************************)
(* Program constants                                                       *)
(***************************************************************************)
CACHE_DURATION_MS == 24 * 60 * 60 * 1000
DEFAULT_ITEM_COUNT == 10
MAX_ITEM_COUNT == 50

Reqs == 1..MaxReq
Dels == 1..MaxDel
Healths == 1..MaxHealth

(***************************************************************************)
(* JavaScript values                                                       *)
(***************************************************************************)
Undefined == [kind |-> "undefined", str |-> <<>>]
ArrayValue == [kind |-> "array", str |-> <<>>]
Str(s) == [kind |-> "string", str |-> s]

NaN == [nan |-> TRUE, val |-> 0]
Num(n) == [nan |-> FALSE, val |-> n]

Digits == <<"0", "1", "2", "3", "4", "5", "6", "7", "8", "9">>
IsDigit(c) == \E i \in 1..10 : Digits[i] = c
DigitVal(c) == (CHOOSE i \in 1..10 : Digits[i] = c) - 1
IsWhitespace(c) == c = " "

RECURSIVE TrimStart(_)
TrimStart(s) ==
    IF s # <<>> /\ IsWhitespace(Head(s)) THEN TrimStart(Tail(s)) ELSE s

RECURSIVE TrimEnd(_)
TrimEnd(s) ==
    IF s # <<>> /\ IsWhitespace(s[Len(s)])
    THEN TrimEnd(SubSeq(s, 1, Len(s) - 1))
    ELSE s

\* trim removing one white space character at most from each end
TrimOnce(s) ==
    LET t == IF s # <<>> /\ IsWhitespace(Head(s)) THEN Tail(s) ELSE s
    IN  IF t # <<>> /\ IsWhitespace(t[Len(t)]) THEN SubSeq(t, 1, Len(t) - 1) ELSE t

\* String.prototype.trim
Trim(s) == TrimEnd(TrimStart(s))

LowerChar(c) ==
    CASE c = "A" -> "a"
      [] c = "B" -> "b"
      [] OTHER -> c

\* String.prototype.toLowerCase
ToLowerCase(s) == [i \in 1..Len(s) |-> LowerChar(s[i])]

RECURSIVE DigitPrefix(_)
DigitPrefix(s) ==
    IF s # <<>> /\ IsDigit(Head(s)) THEN <<Head(s)>> \o DigitPrefix(Tail(s)) ELSE <<>>

RECURSIVE DigitsValue(_)
DigitsValue(d) ==
    IF d = <<>> THEN 0
    ELSE 10 * DigitsValue(SubSeq(d, 1, Len(d) - 1)) + DigitVal(d[Len(d)])

\* parseInt(s, 10) of a string: leading white space, an optional sign,
\* then the longest prefix of decimal digits; NaN when there is no digit.
ParseIntStr(s) ==
    LET t == TrimStart(s)
        neg == t # <<>> /\ Head(t) = "-"
        signed == t # <<>> /\ Head(t) \in {"-", "+"}
        body == IF signed THEN Tail(t) ELSE t
        d == DigitPrefix(body)
    IN  IF d = <<>> THEN NaN
        ELSE Num(IF neg THEN 0 - DigitsValue(d) ELSE DigitsValue(d))

\* parseInt(v, 10) of a request parameter (undefined, a string) or of an
\* integer number
ParseInt(v) ==
    CASE v.kind = "string" -> ParseIntStr(v.str)
      [] v.kind = "number" -> Num(v.val)
      [] OTHER -> NaN

RECURSIVE NatToString(_)
NatToString(n) ==
    IF n < 10 THEN <<Digits[n + 1]>>
    ELSE NatToString(n \div 10) \o <<Digits[(n % 10) + 1]>>

\* String(n) of parseInt's result, as a template literal renders it
NumberToString(x) ==
    IF x.nan THEN <<"N", "a", "N">>
    ELSE IF x.val < 0 THEN <<"-">> \o NatToString(0 - x.val)
    ELSE NatToString(x.val)

\* String.prototype.includes, on a message cut into fragments
Includes(msg, word) == \E i \in 1..Len(msg) : msg[i] = word

(***************************************************************************)
(* Error messages                                                          *)
(***************************************************************************)
MissingQueryMessage ==
    <<"Parâmetro \"query\" é ", "obrigatório", " e deve ser uma string não vazia">>
AdapterQueryMessage == <<"Query deve ser uma string não vazia">>
AdapterItemCountMessage == <<"ItemCount deve ser um número entre 1 e 50">>
InternalErrorMessage == <<"Erro interno do servidor">>
UnavailableMessage == <<"Serviço da ", "Amazon", " temporariamente indisponível">>

(***************************************************************************)
(* src/routes/amazon-products.js: pure functions                           *)
(***************************************************************************)
\* validateSearchRequest without the test of query.trim().length
validateSearchRequestNoTrim(queryParam, itemCountParam) ==
    IF \/ queryParam.kind = "undefined"
       \/ (queryParam.kind = "string" /\ queryParam.str = <<>>)
       \/ queryParam.kind # "string"
    THEN [ok |-> FALSE, message |-> MissingQueryMessage,
          query |-> <<>>, itemCount |-> 0, originalQuery |-> <<>>]
    ELSE LET parsed == ParseInt(itemCountParam)
             parsedItemCount ==
                 IF parsed.nan \/ parsed.val < 1 THEN DEFAULT_ITEM_COUNT
                 ELSE IF parsed.val > MAX_ITEM_COUNT THEN MAX_ITEM_COUNT
                 ELSE parsed.val
         IN  [ok |-> TRUE, message |-> <<>>,
              query |-> ToLowerCase(Trim(queryParam.str)),
              itemCount |-> parsedItemCount,
              originalQuery |-> Trim(queryParam.str)]

\* validateSearchRequest without the clamp to MAX_ITEM_COUNT
validateSearchRequestNoClamp(queryParam, itemCountParam) ==
    IF \/ queryParam.kind = "undefined"
       \/ (queryParam.kind = "string" /\ queryParam.str = <<>>)
       \/ queryParam.kind # "string"
       \/ Len(Trim(queryParam.str)) = 0
    THEN [ok |-> FALSE, message |-> MissingQueryMessage,
          query |-> <<>>, itemCount |-> 0, originalQuery |-> <<>>]
    ELSE LET parsed == ParseInt(itemCountParam)
             parsedItemCount ==
                 IF parsed.nan \/ parsed.val < 1 THEN DEFAULT_ITEM_COUNT
                 ELSE parsed.val
         IN  [ok |-> TRUE, message |-> <<>>,
              query |-> ToLowerCase(Trim(queryParam.str)),
              itemCount |-> parsedItemCount,
              originalQuery |-> Trim(queryParam.str)]

\* validateSearchRequest without the test of parsedItemCount < 1
validateSearchRequestNoFloor(queryParam, itemCountParam) ==
    IF \/ queryParam.kind = "undefined"
       \/ (queryParam.kind = "string" /\ queryParam.str = <<>>)
       \/ queryParam.kind # "string"
       \/ Len(Trim(queryParam.str)) = 0
    THEN [ok |-> FALSE, message |-> MissingQueryMessage,
          query |-> <<>>, itemCount |-> 0, originalQuery |-> <<>>]
    ELSE LET parsed == ParseInt(itemCountParam)
             parsedItemCount ==
                 IF parsed.nan THEN DEFAULT_ITEM_COUNT
                 ELSE IF parsed.val > MAX_ITEM_COUNT THEN MAX_ITEM_COUNT
                 ELSE parsed.val
         IN  [ok |-> TRUE, message |-> <<>>,
              query |-> ToLowerCase(Trim(queryParam.str)),
              itemCount |-> parsedItemCount,
              originalQuery |-> Trim(queryParam.str)]

\* validateSearchRequest: ok = FALSE stands for the thrown Error(message)
validateSearchRequest(queryParam, itemCountParam) ==
    IF \/ queryParam.kind = "undefined"
       \/ (queryParam.kind = "string" /\ queryParam.str = <<>>)
       \/ queryParam.kind # "string"
       \/ Len(Trim(queryParam.str)) = 0
    THEN [ok |-> FALSE, message |-> MissingQueryMessage,
          query |-> <<>>, itemCount |-> 0, originalQuery |-> <<>>]
    ELSE LET parsed == ParseInt(itemCountParam)
             parsedItemCount ==
                 IF parsed.nan \/ parsed.val < 1 THEN DEFAULT_ITEM_COUNT
                 ELSE IF parsed.val > MAX_ITEM_COUNT THEN MAX_ITEM_COUNT
                 ELSE parsed.val
         IN  [ok |-> TRUE, message |-> <<>>,
              query |-> ToLowerCase(Trim(queryParam.str)),
              itemCount |-> parsedItemCount,
              originalQuery |-> Trim(queryParam.str)]

\* A document of the amazonAds collection (cacheData, lines 136-143);
\* hasUpdatedAt = FALSE is a document without the updatedAt field.
NoData ==
    [keyword |-> <<>>, normalizedKeyword |-> <<>>, itemCount |-> 0,
     hasUpdatedAt |-> FALSE, updatedAt |-> 0, products |-> <<>>, totalFound |-> 0]

\* isCacheValid with the comparison turned round
isCacheValidInverted(present, cachedData, nowMs) ==
    IF ~present \/ ~cachedData.hasUpdatedAt THEN FALSE
    ELSE LET cacheAge == nowMs - cachedData.updatedAt
         IN  cacheAge > CACHE_DURATION_MS

\* isCacheValid with <= for <
isCacheValidInclusive(present, cachedData, nowMs) ==
    IF ~present \/ ~cachedData.hasUpdatedAt THEN FALSE
    ELSE LET cacheAge == nowMs - cachedData.updatedAt
         IN  cacheAge <= CACHE_DURATION_MS

\* isCacheValid without the checks of updatedAt
isCacheValidNoExpiry(present, cachedData, nowMs) == present

\* isCacheValid: present = FALSE is cachedData = null, nowMs is Date.now()
isCacheValid(present, cachedData, nowMs) ==
    IF ~present \/ ~cachedData.hasUpdatedAt THEN FALSE
    ELSE LET cacheAge == nowMs - cachedData.updatedAt
         IN  cacheAge < CACHE_DURATION_MS

\* createCacheKey made of the query alone
createCacheKeyQueryOnly(query, itemCount) == ToLowerCase(query)

\* createCacheKey without the "_" between query and itemCount
createCacheKeyNoSeparator(query, itemCount) ==
    ToLowerCase(query) \o NumberToString(itemCount)

\* createCacheKey: itemCount is a number as parseInt yields it
createCacheKey(query, itemCount) ==
    ToLowerCase(query) \o <<"_">> \o NumberToString(itemCount)

NoResponse == [status |-> 0, source |-> "none", products |-> <<>>, error |-> <<>>]

\* res.json of the cache-hit branch (lines 115-124)
CacheResponse(cachedData) ==
    [status |-> 200, source |-> "cache", products |-> cachedData.products,
     error |-> <<>>]

\* ApiResponse sending the list without its last product
ApiResponseTruncated(products) ==
    [status |-> 200, source |-> "amazon_api",
     products |-> SubSeq(products, 1, Len(products) - 1), error |-> <<>>]

\* res.json of the miss branch (lines 154-163)
ApiResponse(products) ==
    [status |-> 200, source |-> "amazon_api", products |-> products, error |-> <<>>]

\* the catch block of the search handler (lines 165-191)
ErrorResponse(message) ==
    LET statusCode ==
            IF Includes(message, "obrigatório") \/ Includes(message, "inválido")
            THEN 400
            ELSE IF Includes(message, "Amazon") THEN 503
            ELSE 500
        errorMessage ==
            IF statusCode = 400 THEN message
            ELSE IF statusCode = 503 THEN UnavailableMessage
            ELSE InternalErrorMessage
    IN  [status |-> statusCode, source |-> "error", products |-> <<>>,
         error |-> errorMessage]

(***************************************************************************)
(* src/paapi.js: pure functions                                            *)
(***************************************************************************)
\* validateSearchParams: the thrown message, <<>> when nothing is thrown
validateSearchParams(query, itemCount) ==
    IF query.kind # "string" \/ query.str = <<>> \/ Len(Trim(query.str)) = 0
    THEN AdapterQueryMessage
    ELSE LET parsedItemCount == ParseInt(itemCount)
         IN  IF \/ parsedItemCount.nan
                \/ parsedItemCount.val < 1
                \/ parsedItemCount.val > 50
             THEN AdapterItemCountMessage
             ELSE <<>>

\* An item of the provider's response; "undefined" is an absent field and
\* nil = TRUE a null element.  A formatted item: "null" is null.
NullItem == [nil |-> TRUE, ASIN |-> "undefined", Title |-> "undefined"]
NullProduct == [nil |-> TRUE, asin |-> "null", title |-> "null"]

formatAmazonItem(item) ==
    IF item.nil THEN NullProduct
    ELSE [nil |-> FALSE,
          asin |-> IF item.ASIN \in {"undefined", ""} THEN "null" ELSE item.ASIN,
          title |-> IF item.Title \in {"undefined", ""}
                    THEN "Título não disponível" ELSE item.Title]

\* the filter without the test of item.asin
KeepItemNonNull(item) == ~item.nil

\* .filter(item => item !== null && item.asin)
KeepItem(item) == ~item.nil /\ item.asin \notin {"null", ""}

RECURSIVE FormatAndFilter(_)
FormatAndFilter(items) ==
    IF items = <<>> THEN <<>>
    ELSE LET f == formatAmazonItem(Head(items))
         IN  (IF KeepItem(f) THEN <<f>> ELSE <<>>) \o FormatAndFilter(Tail(items))

\* the catch of searchItems (lines 172-187): the error thrown again
EnhancedError(message) == <<"Falha na busca ", "Amazon", ": ">> \o message

\* searchItems once the SDK call has ended with `outcome`
\* (lines 150-187); ok = FALSE stands for the thrown enhancedError
searchItemsResult(outcome) ==
    IF ~outcome.ok
    THEN [ok |-> FALSE, products |-> <<>>, message |-> EnhancedError(outcome.message)]
    ELSE IF ~outcome.hasItems \/ Len(outcome.items) = 0
    THEN [ok |-> TRUE, products |-> <<>>, message |-> <<>>]
    ELSE [ok |-> TRUE, products |-> FormatAndFilter(outcome.items), message |-> <<>>]

(***************************************************************************)
(* Inputs of the environment                                               *)
(***************************************************************************)
\* req.query of GET /search: <<query, itemCount>>
SearchInputs ==
    {<<Undefined, Undefined>>, <<ArrayValue, Undefined>>,
     <<Str(<<>>), Undefined>>, <<Str(<<" ">>), Str(<<"2">>)>>,
     <<Str(<<" ", "A">>), Undefined>>, <<Str(<<"b">>), Str(<<"2">>)>>}

\* the itemCount parameters a caller may send with GET /search
ItemCountParams ==
    {Undefined, Str(<<>>), Str(<<"0">>), Str(<<"-", "5">>),
     Str(<<"a", "b", "c">>), Str(<<"5", "0", "0">>), Str(<<"3", "7">>),
     Str(<<"1">>), Str(<<"5", "0">>), Str(<<"5", "1">>),
     Str(<<" ", "7", "x">>)}

\* req.query of GET /search with every itemCount parameter
ParamInputs ==
    {<<Str(<<"b">>), c>> : c \in ItemCountParams}
    \cup {<<Undefined, Str(<<"a", "b", "c">>)>>}

\* req.query of GET /search: one query text in several spellings, with
\* two effective itemCount values
KeyInputs ==
    {<<Str(<<"a">>), Undefined>>, <<Str(<<"a">>), Str(<<"2">>)>>,
     <<Str(<<" ", " ", "A", " ">>), Str(<<"1", "0">>)>>}

Item1 == [nil |-> FALSE, ASIN |-> "B01", Title |-> "T1"]
Item2 == [nil |-> FALSE, ASIN |-> "undefined", Title |-> "T2"]
Item3 == [nil |-> FALSE, ASIN |-> "B02", Title |-> "undefined"]

ApiOk(items) == [ok |-> TRUE, hasItems |-> TRUE, items |-> items, message |-> <<>>]
ApiNoItems == [ok |-> TRUE, hasItems |-> FALSE, items |-> <<>>, message |-> <<>>]
ApiError(message) == [ok |-> FALSE, hasItems |-> FALSE, items |-> <<>>, message |-> message]

\* what the callback of api.searchItems is called with: in Spec, where the
\* store may hold a document of an earlier run, and in SpecCold, where it
\* starts empty
ApiOutcomes ==
    {ApiOk(<<Item1, Item2, Item3>>),
     ApiError(<<"TooManyRequests">>), ApiError(<<"Parâmetro ", "inválido">>)}
ColdApiOutcomes ==
    {ApiOk(<<Item1, Item2, Item3>>), ApiNoItems, ApiError(<<"TooManyRequests">>)}

\* the parameters of the maintenance scenario, sent to GET /search as
\* ?query=..&itemCount=.. and to DELETE /cache/:query?itemCount=..
MaintInputs ==
    {<<Str(<<"a">>), Undefined>>, <<Str(<<"b">>), Str(<<"5", "0", "0">>)>>,
     <<Str(<<" ", "A">>), Str(<<"0">>)>>}

MaintApiOutcomes == {ApiOk(<<Item1>>)}

\* the values of NODE_ENV the service is run with
Envs == {"production", "development", "test"}

\* a request without query and a valid one; a provider that answers or fails
LiveInputs == {<<Undefined, Undefined>>, <<Str(<<" ", "A">>), Undefined>>}

LiveApiOutcomes == {ApiOk(<<Item1, Item2, Item3>>), ApiError(<<"TooManyRequests">>)}

\* items with an empty ASIN, and the responses of the provider made of
\* items with and without ASIN
Item4 == [nil |-> FALSE, ASIN |-> "", Title |-> "T4"]

ItemsInputs == {<<Str(<<"b">>), Undefined>>}

ItemsApiOutcomes ==
    {ApiOk(<<>>), ApiOk(<<Item2>>), ApiOk(<<Item3, Item1>>),
     ApiOk(<<Item1, Item2, Item3>>), ApiOk(<<Item4, Item3, NullItem, Item1>>)}

\* req.query of GET /search: queries with upper case, white space, digits
\* and "_", with itemCount parameters in and out of 1..50
EntryInputs ==
    {<<Str(<<" ", "A">>), Str(<<"0">>)>>, <<Str(<<"a">>), Str(<<"1", "1">>)>>,
     <<Str(<<"a", "1">>), Str(<<"1">>)>>, <<Str(<<"a", "_", "1">>), Str(<<"1">>)>>,
     <<Str(<<"a">>), Str(<<"1">>)>>, <<Str(<<"B", " ">>), Str(<<"5", "0", "0">>)>>}

EntryApiOutcomes == {ApiOk(<<Item1>>)}

\* one query; a provider that finds nothing, only items without ASIN, or
\* one item
EmptyInputs == {<<Str(<<"b">>), Undefined>>}

EmptyApiOutcomes ==
    {ApiNoItems, ApiOk(<<>>), ApiOk(<<Item2, Item4>>), ApiOk(<<Item1>>)}

\* req.query of GET /search with itemCount parameters that the adapter
\* would reject as they are
LayerInputs ==
    {<<Str(<<"b">>), Undefined>>, <<Str(<<"b">>), Str(<<"0">>)>>,
     <<Str(<<"b">>), Str(<<"-", "5">>)>>, <<Str(<<"b">>), Str(<<"a", "b", "c">>)>>,
     <<Str(<<"b">>), Str(<<"5", "0", "0">>)>>, <<Str(<<"b">>), Str(<<"3", "7">>)>>,
     <<Str(<<" ", "A", " ">>), Str(<<"5", "1">>)>>, <<Str(<<" ">>), Str(<<"5">>)>>}

LayerApiOutcomes == {ApiOk(<<Item1>>), ApiError(<<"TooManyRequests">>)}

\* allowedOrigins: URL_LOCAL and URL_OFICIAL of the configuration
AllowedOrigins == {<<"http://localhost:5173">>, <<"https://oficial.example">>}

\* req.headers.origin: absent, empty, the allowed origins, another origin
Origins ==
    {Undefined, Str(<<>>), Str(<<"https://other.example">>)}
    \cup {Str(o) : o \in AllowedOrigins}

\* req.query of GET /search behind the CORS middleware
CorsInputs == {<<Undefined, Undefined>>, <<Str(<<"b">>), Undefined>>}

CorsApiOutcomes == {ApiOk(<<Item1>>)}

\* two successful provider calls with different items
KeyApiOutcomes == {ApiOk(<<Item1>>), ApiOk(<<Item3>>)}

\* the messages docRef.get() can reject with
ReadErrors == {<<"UNAVAILABLE">>}

\* Date.now() when the model starts
StartTime == 2 * CACHE_DURATION_MS

\* A document left under "a_10" by an earlier miss, `age` ms before StartTime
SeedKey == createCacheKey(<<"a">>, Num(DEFAULT_ITEM_COUNT))
SeedProducts == <<[nil |-> FALSE, asin |-> "B09", title |-> "T9"]>>
SeedData(age) ==
    [keyword |-> <<"A">>, normalizedKeyword |-> <<"a">>,
     itemCount |-> DEFAULT_ITEM_COUNT, hasUpdatedAt |-> TRUE,
     updatedAt |-> StartTime - age, products |-> SeedProducts, totalFound |-> 1]
SeedAges == {CACHE_DURATION_MS - 1000, CACHE_DURATION_MS - 1, CACHE_DURATION_MS}
SeedStores ==
    {<< >>}
    \cup {SeedKey :> SeedData(age) : age \in SeedAges}
    \cup {SeedKey :> [SeedData(0) EXCEPT !.hasUpdatedAt = FALSE, !.updatedAt = 0]}

\* A collection left by an earlier run: an expired document under "a_10"
\* and a fresh one under "b_50"
OtherKey == createCacheKey(<<"b">>, Num(MAX_ITEM_COUNT))
OtherData ==
    [keyword |-> <<"b">>, normalizedKeyword |-> <<"b">>,
     itemCount |-> MAX_ITEM_COUNT, hasUpdatedAt |-> TRUE,
     updatedAt |-> StartTime - 1000,
     products |-> <<[nil |-> FALSE, asin |-> "B08", title |-> "T8"]>>,
     totalFound |-> 1]
MaintStore == (SeedKey :> SeedData(CACHE_DURATION_MS)) @@ (OtherKey :> OtherData)

\* The collection at the start of the runs with fairness: empty, or with
\* a fresh or an expired document under "a_10"
LiveStores ==
    {<< >>, SeedKey :> SeedData(CACHE_DURATION_MS - 1000),
     SeedKey :> SeedData(CACHE_DURATION_MS)}

(***************************************************************************)
(* State                                                                   *)
(***************************************************************************)
VARIABLES
    now,        \* the clock: Date.now() and Timestamp.now(), in ms
    store,      \* the amazonAds collection: cache key -> document
    pending,    \* the docRef.set() calls in flight
    committed,  \* the docRef.set() calls that were resolved
    failed,     \* the docRef.set() calls that were rejected (and logged)
    req,        \* the search requests
    env,        \* process.env.NODE_ENV
    del,        \* the DELETE /amazon-products/cache/:query requests
    health      \* the GET /health and GET /amazon-products/health requests

vars == <<now, store, pending, committed, failed, req, env, del, health>>

NoOutcome == [ok |-> FALSE, hasItems |-> FALSE, items |-> <<>>, message |-> <<>>]

\* A request: the handler's position and locals, and the record of the
\* calls it has made (reads, readStatus, providerCalls, apiStatus,
\* apiOutcome, writes, responses); checkedAt is Date.now() of isCacheValid
\* when a document was read, fetchedAt is Timestamp.now() of cacheData.
IdleRequest ==
    [pc |-> "idle", origin |-> Undefined,
     rawQuery |-> Undefined, rawItemCount |-> Undefined,
     query |-> <<>>, itemCount |-> 0, originalQuery |-> <<>>, cacheKey |-> <<>>,
     reads |-> 0, readStatus |-> "none", checkedAt |-> 0,
     found |-> FALSE, cachedData |-> NoData,
     providerCalls |-> 0, apiStatus |-> "none", apiOutcome |-> NoOutcome,
     fetchedAt |-> 0, writes |-> <<>>,
     responses |-> 0, response |-> NoResponse]

\* A DELETE request: the handler's position, req.params.query,
\* req.query.itemCount, the key it derived and the status it was answered
IdleDelete ==
    [pc |-> "idle", query |-> <<>>, rawItemCount |-> Undefined,
     cacheKey |-> <<>>, status |-> 0]

\* A health request: the route, the outcome of the probe read and the status
IdleHealth == [pc |-> "idle", route |-> "none", probe |-> "none", status |-> 0]

Init ==
    /\ now = StartTime
    /\ store \in SeedStores
    /\ pending = {}
    /\ committed = {}
    /\ failed = {}
    /\ req = [r \in Reqs |-> IdleRequest]
    /\ env = "production"
    /\ del = [d \in Dels |-> IdleDelete]
    /\ health = [h \in Healths |-> IdleHealth]

\* res.json / res.status().json: the request ends with this response
Respond(q, response) ==
    [q EXCEPT !.pc = "done", !.responses = @ + 1, !.response = response]

(***************************************************************************)
(* GET /amazon-products/search                                             *)
(***************************************************************************)
\* the origin callback of the CORS middleware letting every origin pass
isOriginAllowedAny(origin) == TRUE

\* the origin callback of the CORS middleware:
\* !origin || allowedOrigins.includes(origin)
isOriginAllowed(origin) ==
    \/ origin.kind = "undefined"
    \/ origin.str = <<>>
    \/ origin.str \in AllowedOrigins

\* the response of the global error middleware to the Error of the origin
\* callback: error.status || 500, 'Erro interno do servidor'
CorsErrorResponse ==
    [status |-> 500, source |-> "error", products |-> <<>>,
     error |-> InternalErrorMessage]

\* A request for GET /search arrives with one of `origins` in its Origin
\* header and one of `inputs` as req.query.  When the origin callback
\* gives an Error the middleware passes it on to the error middleware and
\* no route runs.  Otherwise lines 91-106 of the handler run: validation,
\* key derivation, up to `await docRef.get()`.  The requests are numbered
\* in the order of their arrival.
Arrive(r, inputs, origins) ==
    /\ req[r].pc = "idle"
    /\ r > 1 => req[r - 1].pc # "idle"
    /\ \E origin \in origins, input \in inputs :
         LET rawQuery == input[1]
             rawItemCount == input[2]
             v == validateSearchRequest(rawQuery, rawItemCount)
             q == [req[r] EXCEPT !.origin = origin,
                                 !.rawQuery = rawQuery, !.rawItemCount = rawItemCount]
         IN  req' = [req EXCEPT ![r] =
                 IF ~isOriginAllowed(origin) THEN Respond(q, CorsErrorResponse)
                 ELSE IF ~v.ok THEN Respond(q, ErrorResponse(v.message))
                 ELSE [q EXCEPT !.pc = "reading",
                                !.query = v.query,
                                !.itemCount = v.itemCount,
                                !.originalQuery = v.originalQuery,
                                !.cacheKey = createCacheKey(v.query, Num(v.itemCount)),
                                !.reads = @ + 1]]
    /\ UNCHANGED <<now, store, pending, committed, failed, env, del, health>>

\* a request without Origin header, as a server-side client sends it
SearchBegin(r, inputs) == Arrive(r, inputs, {Undefined})

SearchStart(r) == SearchBegin(r, SearchInputs)

\* lines 106-133, docRef.get() resolved: the hit branch answers from the
\* document; otherwise searchItems is called and runs up to its SDK call
CacheRead(r) ==
    /\ req[r].pc = "reading"
    /\ LET key == req[r].cacheKey
           exists == key \in DOMAIN store
           cachedData == IF exists THEN store[key] ELSE NoData
           q == [req[r] EXCEPT !.readStatus = "ok",
                               !.checkedAt = IF exists THEN now ELSE 0,
                               !.found = exists, !.cachedData = cachedData]
           invalid == validateSearchParams(Str(q.originalQuery),
                                           [kind |-> "number", val |-> q.itemCount])
       IN  req' = [req EXCEPT ![r] =
               IF exists /\ isCacheValid(exists, cachedData, now)
               THEN Respond(q, CacheResponse(cachedData))
               ELSE IF invalid # <<>>
               THEN Respond([q EXCEPT !.providerCalls = @ + 1],
                            ErrorResponse(EnhancedError(invalid)))
               ELSE [q EXCEPT !.pc = "fetching", !.providerCalls = @ + 1,
                              !.apiStatus = "called"]]
    /\ UNCHANGED <<now, store, pending, committed, failed, env, del, health>>

\* line 106, docRef.get() rejected: the handler's catch answers
CacheReadFail(r) ==
    /\ req[r].pc = "reading"
    /\ \E message \in ReadErrors :
         req' = [req EXCEPT ![r] =
                    Respond([@ EXCEPT !.readStatus = "failed"], ErrorResponse(message))]
    /\ UNCHANGED <<now, store, pending, committed, failed, env, del, health>>

\* NewCacheData with the query as typed in normalizedKeyword
NewCacheDataUnnormalised(q, products, t) ==
    [keyword |-> q.originalQuery,
     normalizedKeyword |-> q.originalQuery,
     itemCount |-> q.itemCount,
     hasUpdatedAt |-> TRUE,
     updatedAt |-> t,
     products |-> products,
     totalFound |-> Len(products)]

\* lines 135-143: the document built from the provider's products at time t
NewCacheData(q, products, t) ==
    [keyword |-> q.originalQuery,
     normalizedKeyword |-> q.query,
     itemCount |-> q.itemCount,
     hasUpdatedAt |-> TRUE,
     updatedAt |-> t,
     products |-> products,
     totalFound |-> Len(products)]

\* MissOutcome without the docRef.set() call
MissOutcomeNoWrite(q, result, t) ==
    IF result.ok
    THEN [writes |-> <<>>, response |-> ApiResponse(result.products)]
    ELSE [writes |-> <<>>, response |-> ErrorResponse(result.message)]

\* MissOutcome falling back to the document read when searchItems threw
MissOutcomeStaleFallback(q, result, t) ==
    IF result.ok
    THEN [writes |-> <<[key |-> q.cacheKey,
                        data |-> NewCacheData(q, result.products, t)]>>,
          response |-> ApiResponse(result.products)]
    ELSE [writes |-> <<>>,
          response |-> IF q.found THEN CacheResponse(q.cachedData)
                       ELSE ErrorResponse(result.message)]

\* MissOutcome writing an empty document when searchItems threw
MissOutcomeCachesFailure(q, result, t) ==
    IF result.ok
    THEN [writes |-> <<[key |-> q.cacheKey,
                        data |-> NewCacheData(q, result.products, t)]>>,
          response |-> ApiResponse(result.products)]
    ELSE [writes |-> <<[key |-> q.cacheKey, data |-> NewCacheData(q, <<>>, t)]>>,
          response |-> ErrorResponse(result.message)]

\* MissOutcome starting no write when the list is empty
MissOutcomeSkipEmpty(q, result, t) ==
    IF result.ok
    THEN [writes |-> IF result.products = <<>> THEN <<>>
                     ELSE <<[key |-> q.cacheKey,
                             data |-> NewCacheData(q, result.products, t)]>>,
          response |-> ApiResponse(result.products)]
    ELSE [writes |-> <<>>, response |-> ErrorResponse(result.message)]

\* lines 135-163 after searchItems returned `result`, lines 165-191 after it
\* threw: the docRef.set() calls started and the response sent
MissOutcome(q, result, t) ==
    IF result.ok
    THEN [writes |-> <<[key |-> q.cacheKey,
                        data |-> NewCacheData(q, result.products, t)]>>,
          response |-> ApiResponse(result.products)]
    ELSE [writes |-> <<>>, response |-> ErrorResponse(result.message)]

\* a docRef.set() call in flight: the i-th write of request r
WriteCall(r, i, w) == [req |-> r, n |-> i, key |-> w.key, data |-> w.data]

\* SearchEnd calling the provider a second time after a failure
SearchEndRetry(r, outcomes) ==
    /\ req[r].pc = "fetching"
    /\ \E outcome \in outcomes :
         LET result == searchItemsResult(outcome)
             q == [req[r] EXCEPT !.apiStatus = IF outcome.ok THEN "ok" ELSE "failed",
                                 !.apiOutcome = outcome,
                                 !.fetchedAt = IF outcome.ok THEN now ELSE 0]
             out == MissOutcome(q, result, now)
         IN  IF ~outcome.ok /\ req[r].providerCalls < 2
             THEN /\ req' = [req EXCEPT ![r] = [q EXCEPT !.providerCalls = @ + 1]]
                  /\ pending' = pending
             ELSE /\ pending' = pending \cup
                         {WriteCall(r, i, out.writes[i]) : i \in 1..Len(out.writes)}
                  /\ req' = [req EXCEPT ![r] =
                         Respond([q EXCEPT !.writes = out.writes], out.response)]
    /\ UNCHANGED <<now, store, committed, failed, env, del, health>>

\* the SDK call of searchItems ended with one of `outcomes`: the rest of
\* searchItems and of the handler
SearchEnd(r, outcomes) ==
    /\ req[r].pc = "fetching"
    /\ \E outcome \in outcomes :
         LET result == searchItemsResult(outcome)
             q == [req[r] EXCEPT !.apiStatus = IF outcome.ok THEN "ok" ELSE "failed",
                                 !.apiOutcome = outcome,
                                 !.fetchedAt = IF outcome.ok THEN now ELSE 0]
             out == MissOutcome(q, result, now)
         IN  /\ pending' = pending \cup
                    {WriteCall(r, i, out.writes[i]) : i \in 1..Len(out.writes)}
             /\ req' = [req EXCEPT ![r] =
                    Respond([q EXCEPT !.writes = out.writes], out.response)]
    /\ UNCHANGED <<now, store, committed, failed, env, del, health>>

ProviderReturn(r) == SearchEnd(r, ApiOutcomes)

ProviderReturnCold(r) == SearchEnd(r, ColdApiOutcomes)

\* WriteCommit updating the products of an existing document in place
WriteCommitMerge(w) ==
    /\ w \in pending
    /\ store' = IF w.key \in DOMAIN store
                THEN [store EXCEPT ![w.key].products = w.data.products,
                                   ![w.key].totalFound = w.data.totalFound]
                ELSE (w.key :> w.data) @@ store
    /\ pending' = pending \ {w}
    /\ committed' = committed \cup {w}
    /\ UNCHANGED <<now, failed, req, env, del, health>>

\* WriteCommit keeping the stored document when it is the newer one
WriteCommitNewest(w) ==
    /\ w \in pending
    /\ store' = IF w.key \in DOMAIN store
                    /\ store[w.key].updatedAt > w.data.updatedAt
                THEN store
                ELSE (w.key :> w.data) @@ store
    /\ pending' = pending \ {w}
    /\ committed' = committed \cup {w}
    /\ UNCHANGED <<now, failed, req, env, del, health>>

\* docRef.set(cacheData) resolved: the document is replaced as a whole
WriteCommit(w) ==
    /\ w \in pending
    /\ store' = (w.key :> w.data) @@ store
    /\ pending' = pending \ {w}
    /\ committed' = committed \cup {w}
    /\ UNCHANGED <<now, failed, req, env, del, health>>

\* WriteFail as if the handler awaited the write: the rejection reaches
\* the handler's catch
WriteFailSurfaced(w) ==
    /\ w \in pending
    /\ pending' = pending \ {w}
    /\ failed' = failed \cup {w}
    /\ req' = [req EXCEPT ![w.req].response = ErrorResponse(<<"write failed">>)]
    /\ UNCHANGED <<now, store, committed, env, del, health>>

\* docRef.set(cacheData) rejected: lines 146-149 log the error
WriteFail(w) ==
    /\ w \in pending
    /\ pending' = pending \ {w}
    /\ failed' = failed \cup {w}
    /\ UNCHANGED <<now, store, committed, req, env, del, health>>

\* time passes
Tick ==
    /\ now < StartTime + MaxTicks
    /\ now' = now + 1
    /\ UNCHANGED <<store, pending, committed, failed, req, env, del, health>>

Next ==
    \/ \E r \in Reqs : SearchStart(r)
    \/ \E r \in Reqs : CacheRead(r)
    \/ \E r \in Reqs : CacheReadFail(r)
    \/ \E r \in Reqs : ProviderReturn(r)
    \/ \E w \in pending : WriteCommit(w)
    \/ \E w \in pending : WriteFail(w)
    \/ Tick

Spec == Init /\ [][Next]_vars

\* The service started on an empty collection
InitCold ==
    /\ now = StartTime
    /\ store = << >>
    /\ pending = {}
    /\ committed = {}
    /\ failed = {}
    /\ req = [r \in Reqs |-> IdleRequest]
    /\ env = "production"
    /\ del = [d \in Dels |-> IdleDelete]
    /\ health = [h \in Healths |-> IdleHealth]

NextCold ==
    \/ \E r \in Reqs : SearchStart(r)
    \/ \E r \in Reqs : CacheRead(r)
    \/ \E r \in Reqs : CacheReadFail(r)
    \/ \E r \in Reqs : ProviderReturnCold(r)
    \/ \E w \in pending : WriteCommit(w)
    \/ \E w \in pending : WriteFail(w)
    \/ Tick

SpecCold == InitCold /\ [][NextCold]_vars

(***************************************************************************)
(* DELETE /amazon-products/cache/:query                                    *)
(***************************************************************************)
\* lines 229-233: the key of the document to delete
DeleteKey(query, itemCountParam) ==
    LET itemCount == IF itemCountParam.kind = "undefined"
                     THEN [kind |-> "number", val |-> DEFAULT_ITEM_COUNT]
                     ELSE itemCountParam
    IN  createCacheKey(query, ParseInt(itemCount))

\* res of a DELETE request
RespondDelete(q, status) == [q EXCEPT !.pc = "done", !.status = status]

\* DeleteStart with the route registered whatever NODE_ENV is
DeleteStartAnyEnv(d, inputs) ==
    /\ del[d].pc = "idle"
    /\ d > 1 => del[d - 1].pc # "idle"
    /\ \E input \in inputs :
         LET q == [del[d] EXCEPT !.query = input[1].str, !.rawItemCount = input[2]]
         IN  del' = [del EXCEPT ![d] =
                 [q EXCEPT !.pc = "deleting",
                           !.cacheKey = DeleteKey(q.query, q.rawItemCount)]]
    /\ UNCHANGED <<now, store, pending, committed, failed, req, env, health>>

\* A DELETE request arrives.  The route exists when NODE_ENV is
\* 'development' (line 226) and the handler runs up to
\* `await docRef.delete()`; otherwise the request reaches the 404
\* middleware of the application.
DeleteStart(d, inputs) ==
    /\ del[d].pc = "idle"
    /\ d > 1 => del[d - 1].pc # "idle"
    /\ \E input \in inputs :
         LET q == [del[d] EXCEPT !.query = input[1].str, !.rawItemCount = input[2]]
         IN  del' = [del EXCEPT ![d] =
                 IF env # "development" THEN RespondDelete(q, 404)
                 ELSE [q EXCEPT !.pc = "deleting",
                                !.cacheKey = DeleteKey(q.query, q.rawItemCount)]]
    /\ UNCHANGED <<now, store, pending, committed, failed, req, env, health>>

\* DeleteCommit emptying the collection
DeleteCommitAll(d) ==
    /\ del[d].pc = "deleting"
    /\ store' = << >>
    /\ del' = [del EXCEPT ![d] = RespondDelete(@, 200)]
    /\ UNCHANGED <<now, pending, committed, failed, req, env, health>>

\* lines 235-241, docRef.delete() resolved
DeleteCommit(d) ==
    /\ del[d].pc = "deleting"
    /\ store' = [k \in DOMAIN store \ {del[d].cacheKey} |-> store[k]]
    /\ del' = [del EXCEPT ![d] = RespondDelete(@, 200)]
    /\ UNCHANGED <<now, pending, committed, failed, req, env, health>>

\* lines 242-248, docRef.delete() rejected
DeleteFail(d) ==
    /\ del[d].pc = "deleting"
    /\ del' = [del EXCEPT ![d] = RespondDelete(@, 500)]
    /\ UNCHANGED <<now, store, pending, committed, failed, req, env, health>>

\* The service under each NODE_ENV, on a collection with two documents,
\* receiving searches and cache deletions with the same parameters
InitMaint ==
    /\ now = StartTime
    /\ store = MaintStore
    /\ pending = {}
    /\ committed = {}
    /\ failed = {}
    /\ req = [r \in Reqs |-> IdleRequest]
    /\ env \in Envs
    /\ del = [d \in Dels |-> IdleDelete]
    /\ health = [h \in Healths |-> IdleHealth]

SearchStartMaint(r) == SearchBegin(r, MaintInputs)

ProviderReturnMaint(r) == SearchEnd(r, MaintApiOutcomes)

DeleteStartMaint(d) == DeleteStart(d, MaintInputs)

NextMaint ==
    \/ \E r \in Reqs : SearchStartMaint(r)
    \/ \E r \in Reqs : CacheRead(r)
    \/ \E r \in Reqs : ProviderReturnMaint(r)
    \/ \E w \in pending : WriteCommit(w)
    \/ \E w \in pending : WriteFail(w)
    \/ \E d \in Dels : DeleteStartMaint(d)
    \/ \E d \in Dels : DeleteCommit(d)
    \/ \E d \in Dels : DeleteFail(d)

SpecMaint == InitMaint /\ [][NextMaint]_vars

(***************************************************************************)
(* GET /health and GET /amazon-products/health                             *)
(***************************************************************************)
HealthRoutes == {"app", "router"}

RespondHealth(q, status) == [q EXCEPT !.pc = "done", !.status = status]

\* A health request arrives: the handler of the application answers at
\* once; the handler of the router runs up to the `await` of its probe
\* read of the _health_check collection
HealthStart(h) ==
    /\ health[h].pc = "idle"
    /\ h > 1 => health[h - 1].pc # "idle"
    /\ \E route \in HealthRoutes :
         health' = [health EXCEPT ![h] =
             IF route = "app" THEN RespondHealth([@ EXCEPT !.route = route], 200)
             ELSE [@ EXCEPT !.pc = "probing", !.route = route]]
    /\ UNCHANGED <<now, store, pending, committed, failed, req, env, del>>

\* lines 202-209, the probe read resolved
HealthProbeOk(h) ==
    /\ health[h].pc = "probing"
    /\ health' = [health EXCEPT ![h] = RespondHealth([@ EXCEPT !.probe = "ok"], 200)]
    /\ UNCHANGED <<now, store, pending, committed, failed, req, env, del>>

\* HealthProbeFail answering as if the probe had succeeded
HealthProbeFailIgnored(h) ==
    /\ health[h].pc = "probing"
    /\ health' = [health EXCEPT ![h] = RespondHealth([@ EXCEPT !.probe = "failed"], 200)]
    /\ UNCHANGED <<now, store, pending, committed, failed, req, env, del>>

\* lines 210-217, the probe read rejected
HealthProbeFail(h) ==
    /\ health[h].pc = "probing"
    /\ health' = [health EXCEPT ![h] = RespondHealth([@ EXCEPT !.probe = "failed"], 503)]
    /\ UNCHANGED <<now, store, pending, committed, failed, req, env, del>>

\* Health requests alone, over every collection of Init
NextHealth ==
    \/ \E h \in Healths : HealthStart(h)
    \/ \E h \in Healths : HealthProbeOk(h)
    \/ \E h \in Healths : HealthProbeFail(h)
    \/ Tick

SpecHealth == Init /\ [][NextHealth]_vars

\* Searches whose cache read and provider call end: every pending
\* promise of docRef.get() and of searchItems is settled at some time
InitLive ==
    /\ now = StartTime
    /\ store \in LiveStores
    /\ pending = {}
    /\ committed = {}
    /\ failed = {}
    /\ req = [r \in Reqs |-> IdleRequest]
    /\ env = "production"
    /\ del = [d \in Dels |-> IdleDelete]
    /\ health = [h \in Healths |-> IdleHealth]

SearchStartLive(r) == SearchBegin(r, LiveInputs)

ProviderReturnLive(r) == SearchEnd(r, LiveApiOutcomes)

NextLive ==
    \/ \E r \in Reqs : SearchStartLive(r)
    \/ \E r \in Reqs : CacheRead(r)
    \/ \E r \in Reqs : CacheReadFail(r)
    \/ \E r \in Reqs : ProviderReturnLive(r)
    \/ \E w \in pending : WriteCommit(w)
    \/ \E w \in pending : WriteFail(w)
    \/ Tick

LiveFairness ==
    \A r \in Reqs :
        /\ WF_vars(CacheRead(r) \/ CacheReadFail(r))
        /\ WF_vars(ProviderReturnLive(r))

SpecLive == InitLive /\ [][NextLive]_vars /\ LiveFairness

\* The provider's item lists, with and without ASIN, on an empty collection
SearchStartItems(r) == SearchBegin(r, ItemsInputs)

ProviderReturnItems(r) == SearchEnd(r, ItemsApiOutcomes)

NextItems ==
    \/ \E r \in Reqs : SearchStartItems(r)
    \/ \E r \in Reqs : CacheRead(r)
    \/ \E r \in Reqs : ProviderReturnItems(r)
    \/ \E w \in pending : WriteCommit(w)
    \/ \E w \in pending : WriteFail(w)

SpecItems == InitCold /\ [][NextItems]_vars

\* Queries with digits and "_" on an empty collection
SearchStartEntries(r) == SearchBegin(r, EntryInputs)

ProviderReturnEntries(r) == SearchEnd(r, EntryApiOutcomes)

NextEntries ==
    \/ \E r \in Reqs : SearchStartEntries(r)
    \/ \E r \in Reqs : CacheRead(r)
    \/ \E r \in Reqs : ProviderReturnEntries(r)
    \/ \E w \in pending : WriteCommit(w)
    \/ \E w \in pending : WriteFail(w)

SpecEntries == InitCold /\ [][NextEntries]_vars

\* Searches of one key on an empty collection, with empty results
SearchStartEmpty(r) == SearchBegin(r, EmptyInputs)

ProviderReturnEmpty(r) == SearchEnd(r, EmptyApiOutcomes)

NextEmpty ==
    \/ \E r \in Reqs : SearchStartEmpty(r)
    \/ \E r \in Reqs : CacheRead(r)
    \/ \E r \in Reqs : ProviderReturnEmpty(r)
    \/ \E w \in pending : WriteCommit(w)
    \/ \E w \in pending : WriteFail(w)
    \/ Tick

SpecEmpty == InitCold /\ [][NextEmpty]_vars

\* The endpoint's validation followed by the adapter's, on an empty
\* collection
SearchStartLayers(r) == SearchBegin(r, LayerInputs)

ProviderReturnLayers(r) == SearchEnd(r, LayerApiOutcomes)

NextLayers ==
    \/ \E r \in Reqs : SearchStartLayers(r)
    \/ \E r \in Reqs : CacheRead(r)
    \/ \E r \in Reqs : ProviderReturnLayers(r)
    \/ \E w \in pending : WriteCommit(w)
    \/ \E w \in pending : WriteFail(w)

SpecLayers == InitCold /\ [][NextLayers]_vars

\* Searches with every Origin header, on an empty collection
SearchStartCors(r) == Arrive(r, CorsInputs, Origins)

ProviderReturnCors(r) == SearchEnd(r, CorsApiOutcomes)

NextCors ==
    \/ \E r \in Reqs : SearchStartCors(r)
    \/ \E r \in Reqs : CacheRead(r)
    \/ \E r \in Reqs : CacheReadFail(r)
    \/ \E r \in Reqs : ProviderReturnCors(r)
    \/ \E w \in pending : WriteCommit(w)
    \/ \E w \in pending : WriteFail(w)

SpecCors == InitCold /\ [][NextCors]_vars

\* Request validation alone: lines 91-106 of the handler over every
\* itemCount parameter
SearchStartParams(r) == SearchBegin(r, ParamInputs)

NextParams == \E r \in Reqs : SearchStartParams(r)

SpecParams == InitCold /\ [][NextParams]_vars

\* One query text in several spellings and two itemCount values, on an
\* empty collection, with a provider and a store that answer
SearchStartKeys(r) == SearchBegin(r, KeyInputs)

ProviderReturnKeys(r) == SearchEnd(r, KeyApiOutcomes)

NextKeys ==
    \/ \E r \in Reqs : SearchStartKeys(r)
    \/ \E r \in Reqs : CacheRead(r)
    \/ \E r \in Reqs : ProviderReturnKeys(r)
    \/ \E w \in pending : WriteCommit(w)
    \/ Tick

SpecKeys == InitCold /\ [][NextKeys]_vars

(***************************************************************************)
(* Notions used by the properties                                          *)
(***************************************************************************)
D == CACHE_DURATION_MS

\* the age, at the staleness check of request r, of the document it read
AgeAtCheck(r) == req[r].checkedAt - req[r].cachedData.updatedAt

\* request r read a document that carries an updatedAt
ReadDated(r) ==
    req[r].readStatus = "ok" /\ req[r].found /\ req[r].cachedData.hasUpdatedAt

\* the list searchItems returned to request r
ProviderProducts(r) == searchItemsResult(req[r].apiOutcome).products

AllWrites == pending \cup committed \cup failed

(***************************************************************************)
(* C1: a request that reads a document younger than 24 h is answered 200   *)
(* with that document's products and source 'cache'; it never calls the    *)
(* provider and starts no write, and the step that answers it leaves the   *)
(* store and the writes in flight as they were.                            *)
(***************************************************************************)
C1_CacheHit ==
    /\ [](\A r \in Reqs :
            (ReadDated(r) /\ AgeAtCheck(r) < D) =>
                /\ req[r].pc = "done"
                /\ req[r].response = [status |-> 200, source |-> "cache",
                                      products |-> req[r].cachedData.products,
                                      error |-> <<>>]
                /\ req[r].providerCalls = 0
                /\ req[r].writes = <<>>)
    /\ [][\A r \in Reqs :
            (req[r].pc = "reading" /\ req'[r].response.source = "cache") =>
                (store' = store /\ pending' = pending)]_vars

C1_Witness ==
    \E r \in Reqs :
        /\ ReadDated(r) /\ AgeAtCheck(r) < D
        /\ req[r].response.source = "cache"
        /\ req[r].response.products = SeedProducts

(***************************************************************************)
(* C2: a request that reads no document and whose provider call succeeds   *)
(* has called the provider exactly once, has started exactly one write, of *)
(* a complete document (keyword, normalizedKeyword, itemCount, updatedAt   *)
(* = the time of the write, products) under its own key, and is answered   *)
(* 200 with the provider's items and source 'amazon_api'.                  *)
(***************************************************************************)
C2_CacheMiss ==
    \A r \in Reqs :
        (req[r].readStatus = "ok" /\ ~req[r].found /\ req[r].apiStatus = "ok") =>
            /\ req[r].pc = "done"
            /\ req[r].providerCalls = 1
            /\ Cardinality({w \in AllWrites : w.req = r}) = 1
            /\ req[r].writes =
                 <<[key |-> req[r].cacheKey,
                    data |-> [keyword |-> req[r].originalQuery,
                              normalizedKeyword |-> req[r].query,
                              itemCount |-> req[r].itemCount,
                              hasUpdatedAt |-> TRUE,
                              updatedAt |-> req[r].fetchedAt,
                              products |-> ProviderProducts(r),
                              totalFound |-> Len(ProviderProducts(r))]]>>
            /\ \A w \in AllWrites :
                 w.req = r => (w.key = req[r].cacheKey /\ w.data = req[r].writes[1].data)
            /\ req[r].response = [status |-> 200, source |-> "amazon_api",
                                  products |-> ProviderProducts(r), error |-> <<>>]

C2_Witness ==
    \E r \in Reqs :
        /\ req[r].readStatus = "ok" /\ ~req[r].found /\ req[r].apiStatus = "ok"
        /\ Len(req[r].response.products) = 2
        /\ \E w \in committed : w.req = r /\ store[w.key] = w.data

(***************************************************************************)
(* C3: a request whose cache read failed goes on to the provider, is       *)
(* answered 200 with the provider's items when the provider succeeds, and  *)
(* is never answered with an error caused by the read.                     *)
(***************************************************************************)
C3_ReadFailureDegrades ==
    \A r \in Reqs :
        req[r].readStatus = "failed" =>
            /\ req[r].providerCalls = 1
            /\ req[r].pc = "done" =>
                 /\ req[r].apiStatus \in {"ok", "failed"}
                 /\ req[r].apiStatus = "ok" =>
                      (req[r].response.status = 200
                       /\ req[r].response.products = ProviderProducts(r))

(***************************************************************************)
(* C4: a request whose provider call failed is answered with an error      *)
(* that carries no products (not those of the stale document it read       *)
(* either) and has started no write; the step that answers it leaves the   *)
(* store and the writes in flight as they were.                            *)
(***************************************************************************)
C4_ProviderFailure ==
    /\ [](\A r \in Reqs :
            req[r].apiStatus = "failed" =>
                /\ req[r].pc = "done"
                /\ req[r].response.status >= 400
                /\ req[r].response.source = "error"
                /\ req[r].response.products = <<>>
                /\ req[r].writes = <<>>
                /\ \A w \in AllWrites : w.req # r)
    /\ [][\A r \in Reqs :
            (req[r].pc = "fetching" /\ req'[r].apiStatus = "failed") =>
                (store' = store /\ pending' = pending)]_vars

C4_Witness ==
    \E r \in Reqs :
        /\ req[r].apiStatus = "failed"
        /\ req[r].found
        /\ req[r].cachedData.products # <<>>
        /\ req[r].cacheKey \in DOMAIN store
        /\ store[req[r].cacheKey] = req[r].cachedData

(***************************************************************************)
(* C5: a document whose updatedAt is exactly 24 h before the check is not  *)
(* served and leads to a provider call; one whose updatedAt is 23 h 59 min *)
(* 59 s before the check is served from the cache.                         *)
(***************************************************************************)
C5_StalenessBoundary ==
    \A r \in Reqs :
        ReadDated(r) =>
            /\ AgeAtCheck(r) = 86400000 =>
                 (req[r].response.source # "cache" /\ req[r].providerCalls = 1)
            /\ AgeAtCheck(r) = 86399000 =>
                 (req[r].response.status = 200 /\ req[r].response.source = "cache"
                  /\ req[r].providerCalls = 0)

C5_Witness ==
    \E r \in Reqs :
        ReadDated(r) /\ AgeAtCheck(r) = 86400000 /\ req[r].apiStatus = "ok"

(***************************************************************************)
(* C6: a response from the cache implies that the document read existed,   *)
(* carried an updatedAt and was at most 24 h old at the check; a document  *)
(* older than 24 h, or without updatedAt, is never served and leads to a   *)
(* provider call.                                                          *)
(***************************************************************************)
C6_ServedImpliesFresh ==
    \A r \in Reqs :
        /\ req[r].response.source = "cache" =>
             (ReadDated(r) /\ AgeAtCheck(r) <= D)
        /\ (/\ req[r].readStatus = "ok"
            /\ req[r].found
            /\ (~req[r].cachedData.hasUpdatedAt \/ AgeAtCheck(r) > D)) =>
             (req[r].response.source # "cache" /\ req[r].providerCalls = 1)

C6_Witness ==
    \E r \in Reqs :
        ReadDated(r) /\ AgeAtCheck(r) = D + 1 /\ req[r].providerCalls = 1

(***************************************************************************)
(* C7: a request whose query is missing, empty, white space only or not a  *)
(* string is answered 400 with the validation message, having read no      *)
(* document, called no provider and started no write.                      *)
(***************************************************************************)
InvalidQuery(v) ==
    v.kind # "string" \/ \A i \in 1..Len(v.str) : v.str[i] = " "

C7_InvalidQueryNoIO ==
    /\ [](\A r \in Reqs :
            (req[r].pc # "idle" /\ InvalidQuery(req[r].rawQuery)) =>
                /\ req[r].pc = "done"
                /\ req[r].response = [status |-> 400, source |-> "error",
                                      products |-> <<>>,
                                      error |-> MissingQueryMessage]
                /\ req[r].reads = 0
                /\ req[r].readStatus = "none"
                /\ req[r].providerCalls = 0
                /\ req[r].writes = <<>>
                /\ \A w \in AllWrites : w.req # r)
    /\ [][\A r \in Reqs :
            (req[r].pc = "idle" /\ req'[r].pc # "idle"
             /\ InvalidQuery(req'[r].rawQuery)) =>
                (store' = store /\ pending' = pending)]_vars

C7_Witness ==
    \E r \in Reqs :
        /\ req[r].pc = "done"
        /\ req[r].rawQuery = Str(<<" ">>)
        /\ req[r].response.status = 400

(***************************************************************************)
(* C8: the status of a failed request follows the origin of the failure:   *)
(* 400 for a validation failure, 503 with the generic message for every    *)
(* failure of the provider call, 500 for every other failure; a request    *)
(* that passed validation is never answered 400.                           *)
(***************************************************************************)
C8_StatusByOrigin ==
    \A r \in Reqs :
        req[r].pc = "done" =>
            /\ InvalidQuery(req[r].rawQuery) => req[r].response.status = 400
            /\ req[r].apiStatus = "failed" =>
                 (req[r].response.status = 503
                  /\ req[r].response.error = UnavailableMessage)
            /\ req[r].readStatus = "failed" => req[r].response.status = 500
            /\ ~InvalidQuery(req[r].rawQuery) => req[r].response.status # 400

(***************************************************************************)
(* C9: the write of the miss path is started with the response and never   *)
(* awaited: whether it is in flight, resolved or rejected, its request has *)
(* been answered 200 with the provider's items; a response once sent never *)
(* changes; a rejected write stays rejected and no request starts a second *)
(* write.                                                                  *)
(***************************************************************************)
C9_FireAndForget ==
    /\ [](\A w \in AllWrites :
            /\ req[w.req].pc = "done"
            /\ req[w.req].responses = 1
            /\ req[w.req].response = [status |-> 200, source |-> "amazon_api",
                                      products |-> w.data.products,
                                      error |-> <<>>]
            /\ Cardinality({v \in AllWrites : v.req = w.req}) = 1)
    /\ [][\A r \in Reqs :
            req[r].pc = "done" =>
                (req'[r].response = req[r].response
                 /\ req'[r].responses = req[r].responses)]_vars
    /\ [][\A w \in failed : w \in failed' /\ w \notin pending']_vars

C9_Witness ==
    \E w \in failed :
        /\ req[w.req].response.status = 200
        /\ req[w.req].response.products # <<>>
        /\ w.key \notin DOMAIN store

(***************************************************************************)
(* C10: started on an empty store, with concurrent requests for one cold   *)
(* key, a key has at all times no document or the complete document of one *)
(* single write of one request, and every request whose provider call      *)
(* succeeded is answered 200 with its own provider items.                  *)
(***************************************************************************)
C10_NoCorruption ==
    /\ \A k \in DOMAIN store :
         \E w \in committed :
              /\ w.key = k
              /\ store[k] = w.data
              /\ w.n \in 1..Len(req[w.req].writes)
              /\ req[w.req].writes[w.n] = [key |-> k, data |-> w.data]
    /\ \A r \in Reqs :
         req[r].apiStatus = "ok" =>
             req[r].response = [status |-> 200, source |-> "amazon_api",
                                products |-> ProviderProducts(r), error |-> <<>>]

C10_Witness ==
    \E r1, r2 \in Reqs :
        /\ r1 # r2
        /\ req[r1].cacheKey = req[r2].cacheKey
        /\ req[r1].readStatus = "ok" /\ ~req[r1].found /\ req[r1].apiStatus = "ok"
        /\ req[r2].readStatus = "ok" /\ ~req[r2].found /\ req[r2].apiStatus = "ok"
        /\ req[r1].response.products # req[r2].response.products
        /\ req[r1].fetchedAt # req[r2].fetchedAt
        /\ \E w1, w2 \in committed : w1.req = r1 /\ w2.req = r2
        /\ store[req[r2].cacheKey] = req[r2].writes[1].data

KeyOf(query, itemCount) == query \o <<"_">> \o NatToString(itemCount)

Started(r) == req[r].pc # "idle" /\ ~InvalidQuery(req[r].rawQuery)

C12_KeyPerItemCount ==
    /\ \A r \in Reqs :
         Started(r) =>
             /\ req[r].cacheKey = KeyOf(req[r].query, req[r].itemCount)
             /\ req[r].found =>
                  /\ req[r].cachedData.normalizedKeyword = req[r].query
                  /\ req[r].cachedData.itemCount = req[r].itemCount
    /\ \A r1, r2 \in Reqs :
         (Started(r1) /\ Started(r2) /\ req[r1].query = req[r2].query) =>
             (req[r1].itemCount = req[r2].itemCount
                 <=> req[r1].cacheKey = req[r2].cacheKey)
    /\ \A w \in AllWrites :
         /\ w.key = req[w.req].cacheKey
         /\ w.data.normalizedKeyword = req[w.req].query
         /\ w.data.itemCount = req[w.req].itemCount
    /\ \A k \in DOMAIN store :
         k = KeyOf(store[k].normalizedKeyword, store[k].itemCount)

C12_Witness ==
    \E r1, r2 \in Reqs :
        /\ req[r1].query = req[r2].query
        /\ req[r1].itemCount = 10 /\ req[r2].itemCount = 2
        /\ req[r1].cacheKey \in DOMAIN store
        /\ req[r2].cacheKey \in DOMAIN store
        /\ store[req[r1].cacheKey].itemCount = 10
        /\ store[req[r2].cacheKey].itemCount = 2
        /\ req[r2].readStatus = "ok" /\ ~req[r2].found
        /\ \E w1, w2 \in committed :
             w1.req = r1 /\ w2.req = r2 /\ w1.data.updatedAt < w2.data.updatedAt

(***************************************************************************)
(* C13: normalising a normalised query changes nothing; two requests whose *)
(* raw queries differ only in letter case or in white space at the ends    *)
(* have the same normalised query and, for equal itemCount, the same cache *)
(* key; once the write of one of them is stored, the read of the other     *)
(* within the freshness window is answered from that document, without a   *)
(* provider call.                                                          *)
(***************************************************************************)
NonSpace(c) == c # " "

SameLetter(c, d) ==
    c = d \/ {c, d} = {"a", "A"} \/ {c, d} = {"b", "B"}

\* s and t differ only in letter case or in white space at the ends
\* (no text of the inputs has white space inside)
CaseSpaceEquivalent(s, t) ==
    LET cs == SelectSeq(s, NonSpace)
        ct == SelectSeq(t, NonSpace)
    IN  Len(cs) = Len(ct) /\ \A i \in 1..Len(cs) : SameLetter(cs[i], ct[i])

SameEntry(r1, r2) ==
    /\ Started(r1) /\ Started(r2)
    /\ CaseSpaceEquivalent(req[r1].rawQuery.str, req[r2].rawQuery.str)
    /\ req[r1].itemCount = req[r2].itemCount

C13_NormalisedQueriesShareEntry ==
    /\ [](\A r \in Reqs :
            Started(r) =>
                /\ validateSearchRequest(Str(req[r].query), req[r].rawItemCount).query
                       = req[r].query
                /\ ToLowerCase(Trim(req[r].query)) = req[r].query)
    /\ [](\A r1, r2 \in Reqs :
            SameEntry(r1, r2) =>
                (req[r1].query = req[r2].query
                 /\ req[r1].cacheKey = req[r2].cacheKey))
    /\ [][\A r1, r2 \in Reqs :
            (/\ r1 # r2
             /\ SameEntry(r1, r2)
             /\ \E w \in committed : w.req = r1
             /\ now - store[req[r1].cacheKey].updatedAt < CACHE_DURATION_MS
             /\ req[r2].pc = "reading"
             /\ req'[r2].readStatus = "ok") =>
                /\ req'[r2].pc = "done"
                /\ req'[r2].response =
                     [status |-> 200, source |-> "cache",
                      products |-> store[req[r1].cacheKey].products,
                      error |-> <<>>]
                /\ \E w \in committed :
                     SameEntry(r1, w.req) /\ store[req[r1].cacheKey] = w.data
                /\ req'[r2].providerCalls = 0]_vars

C13_Witness ==
    \E r1, r2 \in Reqs :
        /\ req[r1].rawQuery = Str(<<"a">>)
        /\ req[r2].rawQuery = Str(<<" ", " ", "A", " ">>)
        /\ \E w \in committed : w.req = r1 /\ req[r2].cachedData = w.data
        /\ req[r2].found
        /\ req[r2].response.source = "cache"
        /\ req[r2].response.products = req[r1].response.products

(***************************************************************************)
(* C14: with NODE_ENV = 'production' a key that has a document has one in  *)
(* every later state: no step removes a document, a DELETE request is      *)
(* answered 404, and a document changes only by being replaced as a whole  *)
(* by the complete document of the write of a miss for the same key.       *)
(***************************************************************************)
C14_ProductionLifecycle ==
    /\ [](env = "production" =>
            \A d \in Dels :
                del[d].pc # "idle" => (del[d].pc = "done" /\ del[d].status = 404))
    /\ [][env = "production" =>
            \A k \in DOMAIN store :
                /\ k \in DOMAIN store'
                /\ store'[k] # store[k] =>
                     \E w \in pending :
                         /\ w \notin pending'
                         /\ w.key = k
                         /\ req[w.req].cacheKey = k
                         /\ req[w.req].apiStatus = "ok"
                         /\ store'[k] =
                              [keyword |-> req[w.req].originalQuery,
                               normalizedKeyword |-> req[w.req].query,
                               itemCount |-> req[w.req].itemCount,
                               hasUpdatedAt |-> TRUE,
                               updatedAt |-> req[w.req].fetchedAt,
                               products |-> ProviderProducts(w.req),
                               totalFound |-> Len(ProviderProducts(w.req))]]_vars

C14_Witness ==
    /\ env = "production"
    /\ SeedKey \in DOMAIN store
    /\ store[SeedKey].updatedAt # SeedData(CACHE_DURATION_MS).updatedAt
    /\ store[SeedKey].products # SeedProducts
    /\ OtherKey \in DOMAIN store
    /\ \E d \in Dels : del[d].status = 404 /\ del[d].query = <<"a">>

(***************************************************************************)
(* C15: a DELETE request is handled only when NODE_ENV is 'development'    *)
(* and is answered 404 otherwise; the step that answers it 200 removes the *)
(* document under the key derived from its query and itemCount, if there   *)
(* is one, and leaves every other document as it was; the step that        *)
(* answers it 500 or 404 leaves the store as it was; no document           *)
(* disappears in any other step.                                           *)
(***************************************************************************)
DeleteAnswered(d, status) ==
    del[d].pc # "done" /\ del'[d].pc = "done" /\ del'[d].status = status

C15_DeleteOneEntry ==
    /\ [](\A d \in Dels :
            del[d].pc # "idle" =>
                /\ env # "development" => (del[d].pc = "done" /\ del[d].status = 404)
                /\ env = "development" =>
                     /\ del[d].cacheKey = DeleteKey(del[d].query, del[d].rawItemCount)
                     /\ del[d].pc = "done" => del[d].status \in {200, 500})
    /\ [][\A d \in Dels :
            DeleteAnswered(d, 200) =>
                /\ env = "development"
                /\ DOMAIN store' = DOMAIN store \ {del[d].cacheKey}
                /\ \A k \in DOMAIN store' : store'[k] = store[k]]_vars
    /\ [][\A d \in Dels :
            (DeleteAnswered(d, 500) \/ DeleteAnswered(d, 404)) => store' = store]_vars
    /\ [][(\E k \in DOMAIN store : k \notin DOMAIN store') =>
            \E d \in Dels : DeleteAnswered(d, 200)]_vars

C15_Witness ==
    /\ env = "development"
    /\ \E d \in Dels :
         /\ del[d].status = 200
         /\ del[d].cacheKey = SeedKey
    /\ committed = {}
    /\ DOMAIN store = {OtherKey}
    /\ store[OtherKey] = OtherData

(***************************************************************************)
(* C16: a request has at no time more than one response, and has one as    *)
(* soon as it has ended; the response is a 200 without error text carrying *)
(* the whole list (of the document read, or of the provider), or an error  *)
(* with a text and no product; a response once sent never changes; and,    *)
(* when every cache read and provider call ends, every request that has    *)
(* arrived is answered exactly once.                                       *)
(***************************************************************************)
C16_OneCompleteResponse ==
    /\ [](\A r \in Reqs :
            /\ req[r].responses <= 1
            /\ req[r].pc = "done" <=> req[r].responses = 1
            /\ req[r].responses = 0 => req[r].response = NoResponse
            /\ req[r].responses = 1 =>
                 \/ /\ req[r].response.status = 200
                    /\ req[r].response.error = <<>>
                    /\ \/ /\ req[r].response.source = "cache"
                          /\ req[r].response.products = req[r].cachedData.products
                       \/ /\ req[r].response.source = "amazon_api"
                          /\ req[r].response.products = ProviderProducts(r)
                 \/ /\ req[r].response.status \in {400, 500, 503}
                    /\ req[r].response.source = "error"
                    /\ req[r].response.error # <<>>
                    /\ req[r].response.products = <<>>)
    /\ [][\A r \in Reqs :
            req[r].responses = 1 => req'[r].response = req[r].response]_vars
    /\ \A r \in Reqs :
         (req[r].pc # "idle") ~> (req[r].pc = "done" /\ req[r].responses = 1)

C16_Witness ==
    \E r1, r2 \in Reqs :
        /\ req[r1].responses = 1 /\ req[r2].responses = 1
        /\ req[r1].response.source = "amazon_api"
        /\ Len(req[r1].response.products) = 2
        /\ req[r2].apiStatus = "failed"
        /\ req[r2].response.status = 503
        /\ req[r2].response.products = <<>>

(***************************************************************************)
(* C17: a request reads the cache at most once, calls the provider at most *)
(* once and starts at most one write; the step in which its provider call  *)
(* fails is the step that answers it, with an error, and after its answer  *)
(* a request makes no further read, provider call or write.                *)
(***************************************************************************)
C17_NoRetry ==
    /\ [](\A r \in Reqs :
            /\ req[r].reads <= 1
            /\ req[r].providerCalls <= 1
            /\ Len(req[r].writes) <= 1
            /\ Cardinality({w \in AllWrites : w.req = r}) <= 1
            /\ req[r].apiStatus = "failed" =>
                 /\ req[r].pc = "done"
                 /\ req[r].providerCalls = 1
                 /\ req[r].responses = 1
                 /\ req[r].response.status >= 400)
    /\ [][\A r \in Reqs :
            (req[r].apiStatus # "failed" /\ req'[r].apiStatus = "failed") =>
                (req'[r].pc = "done" /\ req'[r].responses = 1)]_vars
    /\ [][\A r \in Reqs :
            req[r].pc = "done" =>
                /\ req'[r].reads = req[r].reads
                /\ req'[r].providerCalls = req[r].providerCalls
                /\ req'[r].writes = req[r].writes
                /\ {w \in AllWrites' : w.req = r} = {w \in AllWrites : w.req = r}]_vars

C17_Witness ==
    \E r \in Reqs :
        /\ req[r].apiStatus = "failed"
        /\ ~req[r].found
        /\ req[r].reads = 1
        /\ req[r].providerCalls = 1
        /\ req[r].responses = 1
        /\ req[r].response.status = 503
        /\ now > StartTime

(***************************************************************************)
(* C18: the list the adapter returns, which is the list sent to the caller *)
(* and written to the cache, holds exactly the provider's items that have  *)
(* a non-empty ASIN, in the provider's order; an item with a title and no  *)
(* ASIN is not in it, and no stored or served list has a product without   *)
(* asin.                                                                   *)
(***************************************************************************)
HasAsin(item) == ~item.nil /\ item.ASIN \notin {"undefined", ""}

Identified(products) ==
    \A i \in 1..Len(products) :
        ~products[i].nil /\ products[i].asin \notin {"null", ""}

C18_ItemsWithoutAsinDropped ==
    /\ \A r \in Reqs :
         req[r].apiStatus = "ok" =>
             LET kept == SelectSeq(req[r].apiOutcome.items, HasAsin)
                 products == req[r].response.products
             IN  /\ ProviderProducts(r) = products
                 /\ Len(products) = Len(kept)
                 /\ \A i \in 1..Len(kept) : products[i].asin = kept[i].ASIN
                 /\ Identified(products)
                 /\ req[r].writes[1].data.products = products
    /\ \A r \in Reqs : Identified(req[r].response.products)
    /\ \A k \in DOMAIN store : Identified(store[k].products)

C18_Witness ==
    \E r1, r2 \in Reqs :
        /\ req[r1].apiOutcome.items = <<Item4, Item3, NullItem, Item1>>
        /\ Len(req[r1].response.products) = 2
        /\ req[r1].response.products[1].asin = "B02"
        /\ req[r1].response.products[2].asin = "B01"
        /\ req[r1].cacheKey \in DOMAIN store
        /\ store[req[r1].cacheKey].products = req[r1].response.products
        /\ req[r2].response.source = "cache"
        /\ req[r2].response.products = req[r1].response.products

(***************************************************************************)
(* C19: a request to GET /amazon-products/health is answered 200 when its  *)
(* probe read succeeded and 503 when it failed; a request to GET /health   *)
(* is answered 200 at once, without a probe, whatever the collection holds *)
(* and whatever happened to the probes of other requests; no health        *)
(* request changes the store.                                              *)
(***************************************************************************)
C19_HealthEndpoints ==
    /\ [](\A h \in Healths :
            health[h].pc # "idle" =>
                /\ health[h].route = "router" =>
                     /\ health[h].probe = "ok" =>
                          (health[h].pc = "done" /\ health[h].status = 200)
                     /\ health[h].probe = "failed" =>
                          (health[h].pc = "done" /\ health[h].status = 503)
                     /\ health[h].pc = "done" => health[h].probe \in {"ok", "failed"}
                /\ health[h].route = "app" =>
                     /\ health[h].pc = "done"
                     /\ health[h].status = 200
                     /\ health[h].probe = "none")
    /\ [][health' # health => store' = store]_vars

C19_Witness ==
    \E h1, h2 \in Healths :
        /\ h1 < h2
        /\ health[h1].route = "router"
        /\ health[h1].probe = "failed"
        /\ health[h1].status = 503
        /\ health[h2].route = "app"
        /\ health[h2].status = 200
        /\ store # << >>

(***************************************************************************)
(* C20: a DELETE request and a search request with the same query and      *)
(* itemCount parameters derive the same cache key.                         *)
(***************************************************************************)
C20_DeleteKeyIsSearchKey ==
    \A d \in Dels, r \in Reqs :
        (/\ env = "development"
         /\ del[d].pc # "idle"
         /\ Started(r)
         /\ Str(del[d].query) = req[r].rawQuery
         /\ del[d].rawItemCount = req[r].rawItemCount) =>
            del[d].cacheKey = req[r].cacheKey

(***************************************************************************)
(* C21: for every key, no step replaces the stored document by one with an *)
(* older updatedAt.                                                        *)
(***************************************************************************)
C21_FreshnessMonotone ==
    [][\A k \in DOMAIN store \cap DOMAIN store' :
          store'[k].updatedAt >= store[k].updatedAt]_vars

(***************************************************************************)
(* C21 as amended: the last completed write wins.  The step that completes *)
(* a write stores that write's document as a whole, whose updatedAt is the *)
(* time at which its request built it, and leaves every other key as it    *)
(* was; the store changes in no other step; the updatedAt of a stored      *)
(* document is that of a completed write for its key and is never in the   *)
(* future.  It may be older than the updatedAt of the document replaced.   *)
(***************************************************************************)
C21_LastWriterWins ==
    /\ [](\A k \in DOMAIN store :
            /\ store[k].updatedAt <= now
            /\ \E w \in committed : w.key = k /\ store[k] = w.data)
    /\ [][\A w \in pending :
            (w \notin pending' /\ w \in committed') =>
                /\ store'[w.key] = w.data
                /\ store'[w.key].updatedAt = req[w.req].fetchedAt
                /\ \A k \in DOMAIN store : k # w.key => store'[k] = store[k]
                /\ DOMAIN store' = DOMAIN store \cup {w.key}]_vars
    /\ [][store' # store => \E w \in pending : w \in committed']_vars

C21_Witness ==
    \E w1, w2 \in committed :
        /\ w1.key = w2.key
        /\ w1.req # w2.req
        /\ w1.data.updatedAt < w2.data.updatedAt
        /\ store[w1.key] = w1.data

(***************************************************************************)
(* C22: every document written by a search, in flight or stored under key  *)
(* k, has k = normalizedKeyword, "_", itemCount; its normalizedKeyword is  *)
(* its keyword without white space at the ends and in lower case, and is   *)
(* not empty; its itemCount is in 1..50.                                   *)
(***************************************************************************)
IsLower(c) == c \notin {"A", "B"}

ConsistentEntry(k, e) ==
    /\ k = e.normalizedKeyword \o <<"_">> \o NatToString(e.itemCount)
    /\ e.normalizedKeyword # <<>>
    /\ ~IsWhitespace(Head(e.normalizedKeyword))
    /\ ~IsWhitespace(e.normalizedKeyword[Len(e.normalizedKeyword)])
    /\ \A i \in 1..Len(e.normalizedKeyword) : IsLower(e.normalizedKeyword[i])
    /\ CaseSpaceEquivalent(e.keyword, e.normalizedKeyword)
    /\ e.itemCount \in 1..50

C22_StoredEntryConsistent ==
    /\ \A k \in DOMAIN store : ConsistentEntry(k, store[k])
    /\ \A w \in AllWrites : ConsistentEntry(w.key, w.data)

C22_Witness ==
    \E k1, k2 \in DOMAIN store :
        /\ store[k1].keyword = <<"B">>
        /\ store[k1].normalizedKeyword = <<"b">>
        /\ store[k1].itemCount = 50
        /\ store[k2].keyword = <<"a", "_", "1">>
        /\ k2 = <<"a", "_", "1", "_", "1">>

(***************************************************************************)
(* C23: two validated requests whose normalised query or effective         *)
(* itemCount differ have different cache keys, also for queries with "_"   *)
(* and digits; a request served from the cache is served a document that a *)
(* request with its own normalised query and itemCount wrote.              *)
(***************************************************************************)
C23_KeyInjective ==
    /\ \A r1, r2 \in Reqs :
         (/\ Started(r1) /\ Started(r2)
          /\ (req[r1].query # req[r2].query
                 \/ req[r1].itemCount # req[r2].itemCount)) =>
             req[r1].cacheKey # req[r2].cacheKey
    /\ \A r \in Reqs :
         req[r].response.source = "cache" =>
             \E w \in committed :
                 /\ w.data = req[r].cachedData
                 /\ req[w.req].query = req[r].query
                 /\ req[w.req].itemCount = req[r].itemCount

C23_Witness ==
    \E r1, r2 \in Reqs :
        /\ req[r1].query = <<"a", "1">> /\ req[r1].itemCount = 1
        /\ req[r2].query = <<"a">> /\ req[r2].itemCount = 11
        /\ req[r1].cacheKey \in DOMAIN store
        /\ req[r2].cacheKey \in DOMAIN store
        /\ req[r2].readStatus = "ok" /\ ~req[r2].found

(***************************************************************************)
(* C24: on a collection that started empty, the products of the document   *)
(* stored under key k are the whole list that one successful provider call *)
(* returned to a request whose key is k; every response from the cache     *)
(* carries the products of the 200 response of an earlier miss for the     *)
(* same key.                                                               *)
(***************************************************************************)
C24_Provenance ==
    /\ \A k \in DOMAIN store :
         \E r \in Reqs :
             /\ req[r].cacheKey = k
             /\ req[r].apiStatus = "ok"
             /\ store[k].products = ProviderProducts(r)
             /\ store[k].totalFound = Len(ProviderProducts(r))
    /\ \A r \in Reqs :
         req[r].response.source = "cache" =>
             \E m \in Reqs :
                 /\ m # r
                 /\ req[m].cacheKey = req[r].cacheKey
                 /\ req[m].readStatus = "ok"
                 /\ req[m].apiStatus = "ok"
                 /\ req[m].fetchedAt <= req[r].checkedAt
                 /\ req[m].response =
                      [status |-> 200, source |-> "amazon_api",
                       products |-> req[r].response.products, error |-> <<>>]

C24_Witness ==
    \E r, m \in Reqs :
        /\ req[r].response.source = "cache"
        /\ Len(req[r].response.products) = 2
        /\ req[m].response.source = "amazon_api"
        /\ req[m].response.products = req[r].response.products
        /\ req[m].fetchedAt < req[r].checkedAt

(***************************************************************************)
(* C25: a request whose provider call succeeded with no item, or only with *)
(* items without ASIN, is answered 200 with the empty list and has started *)
(* one write, of a document with an empty products list, under its key;    *)
(* while such a document is stored and younger than 24 h, a request that   *)
(* reads it is answered from the cache with the empty list and calls no    *)
(* provider.                                                               *)
(***************************************************************************)
ZeroItems(outcome) ==
    /\ outcome.ok
    /\ ~outcome.hasItems
         \/ \A i \in 1..Len(outcome.items) : ~HasAsin(outcome.items[i])

C25_EmptyResultsCached ==
    /\ [](\A r \in Reqs :
            (req[r].apiStatus = "ok" /\ ZeroItems(req[r].apiOutcome)) =>
                /\ req[r].response = [status |-> 200, source |-> "amazon_api",
                                      products |-> <<>>, error |-> <<>>]
                /\ Len(req[r].writes) = 1
                /\ req[r].writes[1].key = req[r].cacheKey
                /\ req[r].writes[1].data.products = <<>>
                /\ req[r].writes[1].data.totalFound = 0
                /\ \E w \in AllWrites :
                     w.req = r /\ w.key = req[r].cacheKey /\ w.data.products = <<>>)
    /\ [][\A r \in Reqs :
            (/\ req[r].pc = "reading"
             /\ req'[r].readStatus = "ok"
             /\ req[r].cacheKey \in DOMAIN store
             /\ store[req[r].cacheKey].products = <<>>
             /\ now - store[req[r].cacheKey].updatedAt < CACHE_DURATION_MS) =>
                /\ req'[r].pc = "done"
                /\ req'[r].response = [status |-> 200, source |-> "cache",
                                       products |-> <<>>, error |-> <<>>]
                /\ req'[r].providerCalls = 0]_vars

C25_Witness ==
    \E r1, r2 \in Reqs :
        /\ req[r1].apiOutcome = ApiOk(<<Item2, Item4>>)
        /\ \E w \in committed : w.req = r1 /\ req[r2].cachedData = w.data
        /\ req[r2].found
        /\ req[r2].response.source = "cache"
        /\ req[r2].response.products = <<>>
        /\ req[r2].providerCalls = 0

(***************************************************************************)
(* C26: for every request that passed validateSearchRequest, the trimmed   *)
(* query is not empty and the effective itemCount is in 1..50, so          *)
(* validateSearchParams throws nothing for them: every call of searchItems *)
(* reaches the provider, and no request is answered with a rejection of    *)
(* its parameters by the adapter.                                          *)
(***************************************************************************)
C26_ValidationLayersAgree ==
    \A r \in Reqs :
        Started(r) =>
            /\ req[r].originalQuery # <<>>
            /\ \E i \in 1..Len(req[r].originalQuery) : req[r].originalQuery[i] # " "
            /\ req[r].itemCount \in 1..50
            /\ validateSearchParams(Str(req[r].originalQuery),
                                    [kind |-> "number", val |-> req[r].itemCount]) = <<>>
            /\ req[r].providerCalls = 1 => req[r].apiStatus # "none"
            /\ req[r].pc = "done" =>
                 (req[r].response.source = "cache" \/ req[r].apiStatus \in {"ok", "failed"})

C26_Witness ==
    \E r1, r2 \in Reqs :
        /\ req[r1].rawItemCount = Str(<<"5", "0", "0">>)
        /\ req[r1].itemCount = 50
        /\ req[r1].apiStatus = "ok"
        /\ req[r2].rawItemCount = Str(<<"0">>)
        /\ req[r2].itemCount = 10
        /\ req[r2].apiStatus = "failed"

(***************************************************************************)
(* C27: a request whose Origin header is not one of the allowed origins is *)
(* answered without any route having run: it has made no cache read, no    *)
(* provider call and no write; a request without Origin header or with an  *)
(* allowed origin reaches the search handler.                              *)
(***************************************************************************)
NoIO(r) ==
    /\ req[r].pc = "done"
    /\ req[r].reads = 0
    /\ req[r].readStatus = "none"
    /\ req[r].providerCalls = 0
    /\ req[r].writes = <<>>
    /\ \A w \in AllWrites : w.req # r

\* the search handler has run for request r: it has answered 400 from its
\* validation or has gone on to the cache read
Handled(r) ==
    IF InvalidQuery(req[r].rawQuery)
    THEN req[r].response = ErrorResponse(MissingQueryMessage)
    ELSE req[r].reads = 1

C27_CorsGate ==
    \A r \in Reqs :
        req[r].pc # "idle" =>
            /\ (req[r].origin.kind = "string"
                 /\ req[r].origin.str \notin AllowedOrigins) =>
                    (NoIO(r) /\ req[r].response = CorsErrorResponse)
            /\ (req[r].origin.kind = "undefined"
                 \/ req[r].origin.str \in AllowedOrigins) => Handled(r)

(***************************************************************************)
(* C27 as amended: a request whose Origin header is not empty and is not   *)
(* one of the allowed origins is answered by the error middleware without  *)
(* any route having run: it has made no cache read, no provider call and   *)
(* no write, and the step that answers it changes neither the store nor    *)
(* the writes in flight; a request without Origin header, with an empty    *)
(* Origin header or with an allowed origin reaches the search handler.     *)
(***************************************************************************)
C27_CorsGateNonEmptyOrigin ==
    /\ [](\A r \in Reqs :
            req[r].pc # "idle" =>
                /\ (/\ req[r].origin.kind = "string"
                     /\ req[r].origin.str # <<>>
                     /\ req[r].origin.str \notin AllowedOrigins) =>
                        (NoIO(r) /\ req[r].response = CorsErrorResponse)
                /\ (\/ req[r].origin.kind = "undefined"
                     \/ req[r].origin.str = <<>>
                     \/ req[r].origin.str \in AllowedOrigins) => Handled(r))
    /\ [][\A r \in Reqs :
            (/\ req[r].pc = "idle" /\ req'[r].pc # "idle"
             /\ req'[r].origin.kind = "string"
             /\ req'[r].origin.str # <<>>
             /\ req'[r].origin.str \notin AllowedOrigins) =>
                (store' = store /\ pending' = pending)]_vars

C27_Witness ==
    \E r1, r2 \in Reqs :
        /\ req[r1].origin = Str(<<"https://other.example">>)
        /\ req[r1].rawQuery = Str(<<"b">>)
        /\ req[r1].response.status = 500
        /\ req[r1].reads = 0
        /\ req[r2].origin = Str(<<>>)
        /\ req[r2].rawQuery = Str(<<"b">>)
        /\ req[r2].apiStatus = "ok"
        /\ req[r2].response.status = 200

====
